---- MODULE Spec2Model ----
(***************************************************************************)
(* requests_gssapi.gssapi_ : HTTPKerberosAuth, the GSSAPI/SPNEGO           *)
(* authentication handler, with SanitizedResponse and _negotiate_value.    *)
(*                                                                         *)
(* The handler object (self.context, self.pos and its configuration) is    *)
(* shared by the requests it is attached to.  The transport and the GSSAPI *)
(* library are the environment: the status and headers of every response   *)
(* and the outcome of every GSSAPI call are chosen nondeterministically.   *)
(***************************************************************************)
EXTENDS Integers, Sequences, FiniteSets, TLC

\* Python's None and an optional value: None is the empty tuple and a present
\* value x is the one-element tuple Some(x), so that both compare in TLC.
None == <<>>

Some(x) == <<x>>

The(o) == o[1]

\* Body applied to a value computed once
With(value, Body(_)) == Body(value)

\* mutual_authentication modes
REQUIRED == 1
OPTIONAL == 2
DISABLED == 3

\* ------------------------------------------------------------------------
\* Bounds of the model
\* ------------------------------------------------------------------------

\* a file-like body is at a read position 0..MaxPos when the handler is
\* attached; sending the request reads the body to its end, MaxPos + 1
MaxPos == 1

BodyEnd == MaxPos + 1

\* header values of the parser check have at most MaxLen symbols
MaxLen == 5

Requests == {"r1", "r2"}

Hosts == {"a.test", "b.test"}

Statuses == {200, 401, 500}

\* WWW-Authenticate values the server answers with (None: header absent).
\* A header value is a sequence of symbols: the scheme keyword, blanks,
\* commas and other characters.
WwwValues == {None, Some(<<"Negotiate", " ", "t">>)}

\* ------------------------------------------------------------------------
\* _negotiate_value: the regular expression
\*     (?:.*,)*\s*Negotiate\s*([^,]*),?      (re.I, regex.search)
\* over sequences of symbols.  "Negotiate" and "negotiate" stand for any
\* spelling of the keyword (re.I).
\* ------------------------------------------------------------------------
IsKeyword(c) == c \in {"Negotiate", "negotiate", "NEGOTIATE"}

IsSpace(c) == c = " "

\* \s* is greedy: the first position >= i that holds no blank
RECURSIVE SkipSpace(_, _)
SkipSpace(s, i) ==
    IF i <= Len(s) /\ IsSpace(s[i]) THEN SkipSpace(s, i + 1) ELSE i

\* \s*Negotiate matches at position i
KeywordAt(s, i) ==
    LET j == SkipSpace(s, i) IN j <= Len(s) /\ IsKeyword(s[j])

\* [^,]* is greedy: the first position >= i that holds a comma, or the end
RECURSIVE SkipToComma(_, _)
SkipToComma(s, i) ==
    IF i <= Len(s) /\ s[i] # "," THEN SkipToComma(s, i + 1) ELSE i

SetMax(S) == CHOOSE x \in S : \A y \in S : y <= x

SetMin(S) == CHOOSE x \in S : \A y \in S : x <= y

\* Positions at which \s*Negotiate can follow (?:.*,)* when the match starts
\* at i: right after a comma at or beyond i (the greedy group is tried from
\* the last comma backwards), else at i itself (no iteration of the group).
AfterGroup(s, i) ==
    LET afterComma == {c + 1 : c \in {d \in i..Len(s) : s[d] = ","}}
        good == {p \in afterComma : KeywordAt(s, p)}
    IN  IF good # {} THEN SetMax(good)
        ELSE IF KeywordAt(s, i) THEN i
        ELSE 0

\* regex.search(authreq): the leftmost start with a match; group(1)
RegexSearch(s) ==
    LET starts == {i \in 1..(Len(s) + 1) : AfterGroup(s, i) # 0}
    IN  IF starts = {} THEN None
        ELSE LET p == AfterGroup(s, SetMin(starts))
                 k == SkipSpace(s, p)
                 b == SkipSpace(s, k + 1)
                 e == SkipToComma(s, b)
             IN  Some(SubSeq(s, b, e - 1))

\* headers.get(name, None)
HeaderGet(headers, name) ==
    IF name \in DOMAIN headers THEN Some(headers[name]) ELSE None

\* the token of the Negotiate challenge, None without one
_negotiate_value(response) ==
    LET authreq == HeaderGet(response.headers, "www-authenticate")
    IN  IF authreq # None /\ The(authreq) # <<>>
        THEN RegexSearch(The(authreq))
        ELSE None

\* ------------------------------------------------------------------------
\* Responses (requests.models.Response) and SanitizedResponse
\* ------------------------------------------------------------------------

\* the headers of a server response: www is None or Some(header value)
ServerHeaders(www) ==
    LET base == ("date" :> <<"d">>) @@ ("x-secret" :> <<"s">>)
    IN  IF www = None THEN base ELSE ("www-authenticate" :> The(www)) @@ base

\* the k-th response the transport builds for request r
Response(r, k, url, status, www) ==
    [cls |-> "Response", id |-> <<r, k>>, status_code |-> status,
     headers |-> ServerHeaders(www), encoding |-> "utf-8", reason |-> "reason",
     url |-> url, request |-> r, connection |-> "adapter",
     raw |-> [released |-> FALSE], _content_consumed |-> FALSE,
     _content |-> "body", cookies |-> {"sid"}, history |-> <<>>]

\* a sanitizer that copies every header
KeptHeaders_All(response) == DOMAIN response.headers

\* for header in ('date', 'server'): if header in response.headers
KeptHeaders(response) == {"date", "server"} \cap DOMAIN response.headers

SanitizedResponse(response) ==
    [cls |-> "SanitizedResponse", id |-> <<"sanitized">> \o response.id,
     status_code |-> response.status_code,
     encoding |-> response.encoding,
     raw |-> response.raw,
     reason |-> response.reason,
     url |-> response.url,
     request |-> response.request,
     connection |-> response.connection,
     _content_consumed |-> TRUE,
     _content |-> "",
     cookies |-> {},
     headers |-> [h \in {"content-length"} \cup KeptHeaders(response) |->
                     IF h = "content-length" THEN <<"0">> ELSE response.headers[h]],
     history |-> <<>>]

\* ------------------------------------------------------------------------
\* The handler: configuration, self.context, self.pos
\* ------------------------------------------------------------------------
HTTPKerberosAuth(mutual_authentication, delegate, force_preemptive, principal, hostname_override, sanitize_mutual_error_response) ==
    [context |-> <<>>,
     mutual_authentication |-> mutual_authentication,
     delegate |-> delegate,
     pos |-> None,
     service |-> "HTTP",
     force_preemptive |-> force_preemptive,
     principal |-> principal,
     hostname_override |-> hostname_override,
     sanitize_mutual_error_response |-> sanitize_mutual_error_response]

\* self.context[host] = value  (a dict: the keys are DOMAIN context)
DictSet(d, key, value) ==
    [k \in DOMAIN d \cup {key} |-> IF k = key THEN value ELSE d[k]]

\* The stages of generate_request_header at which the GSSAPI library can raise
\* GSSError; "ok" when it does not.  Credentials are acquired only for a
\* configured principal.
GssOutcomes(self) ==
    {"ok", "initiating context", "stepping context"} \cup
    (IF self.principal # None THEN {"acquiring credentials"} ELSE {})

\* gssapi.SecurityContext(usage="initiate", flags=gssflags, name=Name(kerb_spn),
\* creds=creds); cid names the new object
SecurityContext(cid, gssflags, kerb_spn, creds) ==
    [id |-> cid, usage |-> "initiate", flags |-> gssflags, name |-> kerb_spn,
     creds |-> creds, steps |-> <<>>]

\* a context that takes no step
Step_Nothing(ctx, token, ok) == ctx

\* ctx.step(token): the context after the call; ok = FALSE when it raises GSSError
Step(ctx, token, ok) ==
    [ctx EXCEPT !.steps = Append(@, [token |-> token, ok |-> ok])]

\* the output token of the last step of ctx
StepOutput(ctx) == [ctx |-> ctx.id, step |-> Len(ctx.steps)]

KerberosExchangeError(gss_stage) ==
    [type |-> "KerberosExchangeError", stage |-> gss_stage]

\* a handler that ignores hostname_override
KerbHost_Ignoring(self, host) == host

\* kerb_host = host; if self.hostname_override: kerb_host = self.hostname_override
KerbHost(self, host) ==
    IF self.hostname_override # None THEN The(self.hostname_override) ELSE host

\* a handler that keeps the context of the last host only
ContextStore_Evicting(context, host, ctx) == [k \in {host} |-> ctx]

\* self.context[host] = gssapi.SecurityContext(...)
ContextStore(context, host, ctx) == DictSet(context, host, ctx)

\* Returns [self, ret, exc]: the handler after the call, the header returned
\* (None when it raises) and the exception raised (None when it returns).
generate_request_header(self, response, host, is_preemptive, gss, cid) ==
    LET gssflags == {"mutual_authentication", "out_of_sequence_detection"} \cup
                    (IF self.delegate THEN {"delegate_to_peer"} ELSE {})
        kerb_host == KerbHost(self, host)
        kerb_spn == <<self.service, "@", kerb_host>>
        creds == IF self.principal # None
                 THEN Some([name |-> The(self.principal), usage |-> "initiate"])
                 ELSE None
        created == SecurityContext(cid, gssflags, kerb_spn, creds)
        token == IF is_preemptive THEN None ELSE _negotiate_value(response)
        stepped == Step(created, token, gss = "ok")
        stored == [self EXCEPT !.context = ContextStore(@, host, stepped)]
    IN  CASE gss = "acquiring credentials" ->
               [self |-> self, ret |-> None,
                exc |-> Some(KerberosExchangeError(gss))]
          [] gss = "initiating context" ->
               [self |-> self, ret |-> None,
                exc |-> Some(KerberosExchangeError(gss))]
          [] gss = "stepping context" ->
               [self |-> stored, ret |-> None,
                exc |-> Some(KerberosExchangeError(gss))]
          [] OTHER ->
               [self |-> stored,
                ret |-> Some(<<"Negotiate", StepOutput(stepped)>>),
                exc |-> None]

\* ------------------------------------------------------------------------
\* Requests and the transport
\* ------------------------------------------------------------------------

\* A prepared request.  body is None for a body without tell/seek (no body,
\* str, bytes) and Some(p) for a file-like body at read position p.
PreparedRequest(url, body) ==
    [url |-> url, headers |-> <<>>, hooks |-> <<>>, body |-> body]

Bodies == {None} \cup {Some(p) : p \in 0..MaxPos}

\* what the server answers to one send
Replies == [status_code : Statuses, www : WwwValues]

\* response.connection.send(response.request): the transport reads the body
\* from its read position to its end and builds the k-th response
connection_send(request, r, k, reply) ==
    [request |-> IF request.body # None
                 THEN [request EXCEPT !.body = Some(BodyEnd)] ELSE request,
     response |-> Response(r, k, request.url, reply.status_code, reply.www)]

\* a handler that reads the content and keeps the connection
Consume_Held(response) == [response EXCEPT !._content_consumed = TRUE]

\* response.content; response.raw.release_conn()
Consume(response) ==
    [response EXCEPT !._content_consumed = TRUE, !.raw = [released |-> TRUE]]

\* urlparse(url).hostname: a url is modelled by its host
Hostname(url) == url

\* An event of the exchange of one request, in the order of execution:
\*   "__call__"  the handler was attached; pos is the position it recorded
\*   "send"      the session sent the request (request: as it was sent)
\*   "seek"      handle_response rewound the body to pos
\*   "KerberosExchangeError"  authenticate_user caught it (response: in hand)
\*   "Authorization", "content", "release_conn", "resend"  the steps of
\*               authenticate_user (request: as it was sent again;
\*               response: the id of the 401 response in hand)
Event(ev, request, pos, response) ==
    [ev |-> ev, request |-> request, pos |-> pos, response |-> response]

\* a handler that forgets the history
HistoryAppend_Forgotten(_r, response) == _r

\* _r.history.append(response)
HistoryAppend(_r, response) == [_r EXCEPT !.history = Append(@, response)]

\* Returns [self, request, ret, trace]: ret is the response returned, trace
\* the events of the call.
authenticate_user(self, response, request, r, k, gss, cid, reply) ==
    With(generate_request_header(self, response, Hostname(response.url),
                                 FALSE, gss, cid), LAMBDA g :
    LET withAuth == [request EXCEPT
                        !.headers = DictSet(@, "Authorization", The(g.ret))]
        tx == connection_send(withAuth, r, k, reply)
        _r == HistoryAppend(tx.response, Consume(response))
    IN  IF g.exc # None
        THEN [self |-> g.self, request |-> request, ret |-> response,
              trace |-> <<Event("KerberosExchangeError", None, None,
                                Some(response.id))>>]
        ELSE [self |-> g.self, request |-> tx.request, ret |-> _r,
              trace |-> <<Event("Authorization", None, None, Some(response.id)),
                          Event("content", None, None, Some(response.id)),
                          Event("release_conn", None, None, Some(response.id)),
                          Event("resend", Some(withAuth), None,
                                Some(response.id))>>])

handle_401(self, response, request, r, k, gss, cid, reply) ==
    IF _negotiate_value(response) # None
    THEN authenticate_user(self, response, request, r, k, gss, cid, reply)
    ELSE [self |-> self, request |-> request, ret |-> response, trace |-> <<>>]

\* Returns [self, ret, exc]: ret is True/False; exc is the KeyError of
\* self.context[host] when no context is stored for the host.
authenticate_server(self, response, ok) ==
    LET host == Hostname(response.url)
    IN  IF host \notin DOMAIN self.context
        THEN [self |-> self, ret |-> FALSE, exc |-> Some([type |-> "KeyError"])]
        ELSE [self |-> [self EXCEPT !.context[host] =
                            Step(@, _negotiate_value(response), ok)],
              ret |-> ok, exc |-> None]

MutualAuthenticationError(response) ==
    [type |-> "MutualAuthenticationError", response |-> response.id]

\* a handler that authenticates the server in every mode
MutualAuthWanted_Always(self) == TRUE

\* self.mutual_authentication in (REQUIRED, OPTIONAL)
MutualAuthWanted(self) == self.mutual_authentication \in {REQUIRED, OPTIONAL}

\* a handler that lets every response without a challenge through
ErrorOrOptional_Always(self, is_http_error) == TRUE

\* is_http_error or self.mutual_authentication == OPTIONAL
ErrorOrOptional(self, is_http_error) ==
    is_http_error \/ self.mutual_authentication = OPTIONAL

\* a handler that sanitizes in every mode
SanitizeWanted_AnyMode(self) == self.sanitize_mutual_error_response

\* self.mutual_authentication == REQUIRED and
\* self.sanitize_mutual_error_response
SanitizeWanted(self) ==
    self.mutual_authentication = REQUIRED /\ self.sanitize_mutual_error_response

\* Returns [self, ret, exc, server]: ret is Some(response returned) or None,
\* exc is Some(exception raised) or None; server is None when
\* authenticate_server was not called, else Some([ret, exc]) of its call.
handle_other(self, response, ok) ==
    With(authenticate_server(self, response, ok), LAMBDA s :
    LET is_http_error == response.status_code >= 400
        called == Some([ret |-> s.ret, exc |-> s.exc])
    IN  IF ~MutualAuthWanted(self)
        THEN [self |-> self, ret |-> Some(response), exc |-> None,
              server |-> None]
        ELSE IF _negotiate_value(response) # None
        THEN IF s.exc # None
             THEN [self |-> s.self, ret |-> None, exc |-> s.exc,
                   server |-> called]
             ELSE IF ~s.ret
             THEN [self |-> s.self, ret |-> None,
                   exc |-> Some(MutualAuthenticationError(response)),
                   server |-> called]
             ELSE [self |-> s.self, ret |-> Some(response), exc |-> None,
                   server |-> called]
        ELSE IF ErrorOrOptional(self, is_http_error)
        THEN IF SanitizeWanted(self)
             THEN [self |-> self, ret |-> Some(SanitizedResponse(response)),
                   exc |-> None, server |-> None]
             ELSE [self |-> self, ret |-> Some(response), exc |-> None,
                   server |-> None]
        ELSE [self |-> self, ret |-> None,
              exc |-> Some(MutualAuthenticationError(response)),
              server |-> None])

\* a handler that never rewinds the body
Rewind_Never(self, request) == request

\* response.request.body.seek(self.pos), done when self.pos is not None
Rewind(self, request) ==
    IF self.pos # None THEN [request EXCEPT !.body = self.pos] ELSE request

\* a handler that handles a third 401
Is401ToHandle_Thrice(response, num_401s) ==
    response.status_code = 401 /\ num_401s < 3

\* status_code == 401 and num_401s < 2
Is401ToHandle(response, num_401s) ==
    response.status_code = 401 /\ num_401s < 2

\* a handler that gives a third 401 to handle_other
Is401ToReturn_Never(response, num_401s) == FALSE

\* status_code == 401 and num_401s >= 2
Is401ToReturn(response, num_401s) ==
    response.status_code = 401 /\ num_401s >= 2

\* One invocation of handle_response, up to its return or its recursive call.
\* Returns [next, self, request, response, num_401s, exc, trace, server]:
\* next = "recurse" (handle_response is invoked again with response and
\* num_401s), "return" (response is returned) or "raise" (exc is raised).
handle_response(self, response, request, num_401s, r, k, gss, cid, reply, ok) ==
    With(Rewind(self, request), LAMBDA rewound :
    With(handle_401(self, response, rewound, r, k, gss, cid, reply), LAMBDA h :
    With(handle_other(self, response, ok), LAMBDA o :
    LET noSeek == self.pos # None /\ request.body = None
        seek == IF self.pos # None
                THEN <<Event("seek", None, self.pos, Some(response.id))>>
                ELSE <<>>
    IN  IF noSeek
        THEN [next |-> "raise", self |-> self, request |-> request,
              response |-> response, num_401s |-> num_401s,
              exc |-> Some([type |-> "AttributeError"]), trace |-> <<>>,
              server |-> None]
        ELSE IF Is401ToHandle(response, num_401s)
        THEN [next |-> "recurse", self |-> h.self, request |-> h.request,
              response |-> h.ret, num_401s |-> num_401s + 1, exc |-> None,
              trace |-> seek \o h.trace, server |-> None]
        ELSE IF Is401ToReturn(response, num_401s)
        THEN [next |-> "return", self |-> self, request |-> rewound,
              response |-> response, num_401s |-> num_401s, exc |-> None,
              trace |-> seek, server |-> None]
        ELSE IF o.exc # None
        THEN [next |-> "raise", self |-> o.self, request |-> rewound,
              response |-> response, num_401s |-> num_401s, exc |-> o.exc,
              trace |-> seek, server |-> o.server]
        ELSE [next |-> "return", self |-> o.self, request |-> rewound,
              response |-> The(o.ret), num_401s |-> num_401s, exc |-> None,
              trace |-> seek, server |-> o.server])))

\* request.body.tell(), None on AttributeError
Tell(request) == request.body

\* a handler that keeps the position it has when the body has no tell
PosRecorded_Stale(self, request) ==
    IF Tell(request) = None THEN self.pos ELSE Tell(request)

\* try: self.pos = request.body.tell()  except AttributeError: self.pos = None
PosRecorded(self, request) == Tell(request)

\* a handler that is preemptive whatever force_preemptive says
__call__Preemptive(self, request, gss, cid) ==
    With(generate_request_header(self, None, Hostname(request.url), TRUE,
                                 gss, cid), LAMBDA g :
    LET withAuth == [request EXCEPT
                        !.headers = DictSet(@, "Authorization", The(g.ret))]
        hooked == [withAuth EXCEPT !.hooks = Append(@, "handle_response")]
    IN  IF g.exc # None
        THEN [self |-> g.self, request |-> request, exc |-> g.exc]
        ELSE [self |-> [g.self EXCEPT !.pos = PosRecorded(g.self, request)],
              request |-> hooked, exc |-> None])

\* HTTPKerberosAuth.__call__(request).  Returns [self, request, exc].
__call__(self, request, gss, cid) ==
    With(generate_request_header(self, None, Hostname(request.url), TRUE,
                                 gss, cid), LAMBDA g :
    LET withAuth == IF self.force_preemptive
                    THEN [request EXCEPT
                            !.headers = DictSet(@, "Authorization", The(g.ret))]
                    ELSE request
        hooked == [withAuth EXCEPT !.hooks = Append(@, "handle_response")]
        self1 == IF self.force_preemptive THEN g.self ELSE self
    IN  IF self.force_preemptive /\ g.exc # None
        THEN [self |-> g.self, request |-> request, exc |-> g.exc]
        ELSE [self |-> [self1 EXCEPT !.pos = PosRecorded(self1, request)],
              request |-> hooked, exc |-> None])

\* ------------------------------------------------------------------------
\* State
\* ------------------------------------------------------------------------
VARIABLES
    self,       \* the HTTPKerberosAuth object
    pc,         \* per request: idle, prepared, hook, returned, raised, closed
    request,    \* the prepared request of each exchange
    response,   \* the response handle_response is (or was last) invoked with
    num_401s,   \* the num_401s argument of that invocation
    result,     \* what __call__ raised, or handle_response returned or raised
    log         \* per request, the events of its exchange so far

vars == <<self, pc, request, response, num_401s, result, log>>

\* del d[key]
DictDel(d, key) == [k \in DOMAIN d \ {key} |-> d[k]]

\* the sends of request r so far, the first one and the resends
Sends(r) == SelectSeq(log[r], LAMBDA e : e.ev \in {"send", "resend"})

\* The configurations explored: every mode with either value of
\* force_preemptive and sanitize_mutual_error_response, each with the
\* defaults of delegate, principal and hostname_override and with all three
\* of them set.
Configurations ==
    {HTTPKerberosAuth(m, o[1], f, o[2], o[3], z) :
        m \in {REQUIRED, OPTIONAL, DISABLED}, f \in BOOLEAN, z \in BOOLEAN,
        o \in {<<FALSE, None, None>>,
               <<TRUE, Some("user@REALM"), Some("alias.test")>>}}

Init ==
    /\ self \in Configurations
    /\ pc = [r \in Requests |-> "idle"]
    /\ request = <<>>
    /\ response = <<>>
    /\ num_401s = <<>>
    /\ result = <<>>
    /\ log = [r \in Requests |-> <<>>]

\* auth(request): the handler is attached to a new request of the session
Call(r) ==
    /\ pc[r] = "idle"
    /\ \E url \in Hosts, body \in Bodies,
          gss \in (IF self.force_preemptive THEN GssOutcomes(self) ELSE {"ok"}) :
         \E c \in {__call__(self, PreparedRequest(url, body), gss, <<r, 0>>)} :
             /\ self' = c.self
             /\ request' = DictSet(request, r, c.request)
             /\ IF c.exc = None
                THEN /\ pc' = [pc EXCEPT ![r] = "prepared"]
                     /\ result' = result
                     /\ log' = [log EXCEPT ![r] = Append(@,
                           Event("__call__", Some(c.request), c.self.pos, None))]
                ELSE /\ pc' = [pc EXCEPT ![r] = "raised"]
                     /\ result' = DictSet(result, r,
                            [op |-> "__call__", kind |-> "raise",
                             value |-> None, exc |-> c.exc, server |-> None])
                     /\ log' = log
    /\ UNCHANGED <<response, num_401s>>

\* The session sends the prepared request and dispatches the response hook:
\* handle_response(response) with num_401s = 0.
Send(r) ==
    /\ pc[r] = "prepared"
    /\ "handle_response" \in {request[r].hooks[i] : i \in DOMAIN request[r].hooks}
    /\ \E reply \in Replies :
         \E tx \in {connection_send(request[r], r, 0, reply)} :
             /\ request' = DictSet(request, r, tx.request)
             /\ response' = DictSet(response, r, tx.response)
    /\ num_401s' = DictSet(num_401s, r, 0)
    /\ log' = [log EXCEPT ![r] = Append(@,
                  Event("send", Some(request[r]), None, None))]
    /\ pc' = [pc EXCEPT ![r] = "hook"]
    /\ UNCHANGED <<self, result>>

\* The GSSAPI library answers a call of generate_request_header only: for an
\* invocation that makes none, its answer is not an input.
GssAsked(r) ==
    IF Is401ToHandle(response[r], num_401s[r]) /\
       _negotiate_value(response[r]) # None
    THEN GssOutcomes(self) ELSE {"ok"}

\* The server answers only a request that is sent again, which takes a header.
ReplyAsked(r, gss) ==
    IF Is401ToHandle(response[r], num_401s[r]) /\
       _negotiate_value(response[r]) # None /\ gss = "ok"
    THEN Replies ELSE {[status_code |-> 200, www |-> None]}

\* The context is stepped by authenticate_server only: for a response that is
\* not a 401.
StepAsked(r) ==
    IF response[r].status_code # 401 THEN BOOLEAN ELSE {TRUE}

\* One invocation of handle_response for request r.  On a return or a raise,
\* response[r] stays the response the invocation was given.
Hook(r) ==
    /\ pc[r] = "hook"
    /\ \E gss \in GssAsked(r) :
       \E reply \in ReplyAsked(r, gss), ok \in StepAsked(r) :
         \E hr \in {handle_response(self, response[r], request[r], num_401s[r],
                                    r, Len(Sends(r)), gss,
                                    <<r, num_401s[r] + 1>>, reply, ok)} :
             /\ self' = hr.self
             /\ request' = DictSet(request, r, hr.request)
             /\ num_401s' = DictSet(num_401s, r, hr.num_401s)
             /\ log' = [log EXCEPT ![r] = @ \o hr.trace]
             /\ IF hr.next = "recurse"
                THEN /\ pc' = pc
                     /\ response' = DictSet(response, r, hr.response)
                     /\ result' = result
                ELSE /\ pc' = [pc EXCEPT ![r] =
                                IF hr.next = "return" THEN "returned" ELSE "raised"]
                     /\ response' = response
                     /\ result' = DictSet(result, r,
                            [op |-> "handle_response", kind |-> hr.next,
                             value |-> IF hr.next = "return"
                                       THEN Some(hr.response) ELSE None,
                             exc |-> hr.exc, server |-> hr.server])

\* the caller is done with the exchange of r and drops its objects; of the
\* events of the exchange, the __call__ that attached the handler is kept
Close(r) ==
    /\ pc[r] \in {"returned", "raised"}
    /\ pc' = [pc EXCEPT ![r] = "closed"]
    /\ request' = DictDel(request, r)
    /\ response' = DictDel(response, r)
    /\ num_401s' = DictDel(num_401s, r)
    /\ result' = DictDel(result, r)
    /\ log' = [log EXCEPT ![r] = SelectSeq(@, LAMBDA e : e.ev = "__call__")]
    /\ UNCHANGED self

\* The handler serves one request at a time (single-threaded, synchronous
\* use): r2 is prepared once the exchange of r1 is over.
Turn(r) == r = "r1" \/ pc["r1"] = "closed"

Next ==
    \E r \in Requests :
        \/ Turn(r) /\ Call(r)
        \/ Send(r)
        \/ Hook(r)
        \/ Close(r)

Spec == Init /\ [][Next]_vars

\* ------------------------------------------------------------------------
\* Properties
\* ------------------------------------------------------------------------

\* handle_response has returned or raised for request r
Handled(r) == r \in DOMAIN result /\ result[r].op = "handle_response"

\* the response carries a Negotiate challenge
Challenge(resp) == _negotiate_value(resp) # None

Returned(r, resp) ==
    result[r].kind = "return" /\ result[r].value = Some(resp)

Raised(r, type) ==
    result[r].kind = "raise" /\ The(result[r].exc).type = type

\* C1: one top-level handle_response call is at most three invocations deep
\* (num_401s never exceeds 2, so the recursion ends) and sends the request
\* again at most twice; when the first response and both resends are 401
\* responses with a Negotiate challenge, it has resent twice and returns the
\* last 401 response, unchanged and without raising.
C1_BoundedRetries ==
    \A r \in Requests :
        /\ r \in DOMAIN num_401s => num_401s[r] <= 2
        /\ Len(Sends(r)) <= 3
        /\ (/\ Handled(r)
            /\ Len(Sends(r)) = 3
            /\ response[r].status_code = 401
            /\ Challenge(response[r]))
           => /\ response[r].id = <<r, 2>>
              /\ Returned(r, response[r])

C1_Witness ==
    \E r \in Requests :
        /\ Handled(r)
        /\ Len(Sends(r)) = 3
        /\ response[r].status_code = 401
        /\ Challenge(response[r])
        /\ result[r].kind = "return"

\* C2: with mutual_authentication = REQUIRED and
\* sanitize_mutual_error_response = True, every response handle_response
\* returns is a SanitizedResponse or a response for which authenticate_server
\* returned True.
C2_NoUnauthenticatedResponse ==
    \A r \in Requests :
        (/\ self.mutual_authentication = REQUIRED
         /\ self.sanitize_mutual_error_response
         /\ Handled(r)
         /\ result[r].kind = "return")
        => \/ The(result[r].value).cls = "SanitizedResponse"
           \/ result[r].server = Some([ret |-> TRUE, exc |-> None])

\* C3: for a response that is not a 401, under REQUIRED or OPTIONAL: with a
\* challenge authenticate_server is called, MutualAuthenticationError is
\* raised when it returns False and the response is returned unchanged when
\* it returns True; under REQUIRED without a challenge, a status below 400
\* raises MutualAuthenticationError and a status of 400 or more returns a
\* SanitizedResponse when sanitization is enabled and else the response
\* unchanged.
C3_PolicyTable ==
    \A r \in Requests :
        (/\ Handled(r)
         /\ response[r].status_code # 401
         /\ self.mutual_authentication \in {REQUIRED, OPTIONAL})
        => /\ Challenge(response[r]) =>
                /\ result[r].server # None
                /\ result[r].server = Some([ret |-> FALSE, exc |-> None])
                      => Raised(r, "MutualAuthenticationError")
                /\ result[r].server = Some([ret |-> TRUE, exc |-> None])
                      => Returned(r, response[r])
           /\ (/\ ~Challenge(response[r])
               /\ self.mutual_authentication = REQUIRED
               /\ response[r].status_code < 400)
              => /\ Raised(r, "MutualAuthenticationError")
                 /\ result[r].server = None
           /\ (/\ ~Challenge(response[r])
               /\ self.mutual_authentication = REQUIRED
               /\ response[r].status_code >= 400)
              => /\ result[r].kind = "return"
                 /\ The(result[r].value).cls =
                        IF self.sanitize_mutual_error_response
                        THEN "SanitizedResponse" ELSE "Response"
                 /\ ~self.sanitize_mutual_error_response
                        => Returned(r, response[r])
                 /\ self.sanitize_mutual_error_response
                        => Returned(r, SanitizedResponse(response[r]))

C3_Witness ==
    \E r \in Requests :
        /\ Handled(r)
        /\ self.mutual_authentication = REQUIRED
        /\ response[r].status_code = 500
        /\ ~Challenge(response[r])
        /\ result[r].kind = "return"
        /\ The(result[r].value).cls = "SanitizedResponse"

\* C4: with mutual_authentication = DISABLED, handling a response that is not
\* a 401 returns that very response, raises nothing, sanitizes nothing, does
\* not call authenticate_server and leaves the handler, its stored contexts
\* included, as it was.
C4_DisabledResult ==
    \A r \in Requests :
        (/\ self.mutual_authentication = DISABLED
         /\ Handled(r)
         /\ response[r].status_code # 401)
        => /\ Returned(r, response[r])
           /\ result[r].server = None

C4_DisabledStep ==
    \A r \in Requests :
        (/\ self.mutual_authentication = DISABLED
         /\ pc[r] = "hook"
         /\ response[r].status_code # 401
         /\ pc'[r] # "hook")
        => self' = self

C4_Disabled == []C4_DisabledResult /\ [][C4_DisabledStep]_vars

C4_Witness ==
    \E r \in Requests :
        /\ self.mutual_authentication = DISABLED
        /\ Handled(r)
        /\ response[r].status_code = 500
        /\ Challenge(response[r])
        /\ Hostname(response[r].url) \in DOMAIN self.context

\* C5: with mutual_authentication = OPTIONAL, handle_response raises
\* MutualAuthenticationError only for a response with a challenge for which
\* authenticate_server returned False; a response that is not a 401 and has
\* no challenge is returned unchanged, whatever its status and whatever
\* sanitize_mutual_error_response, never as a SanitizedResponse.
C5_Optional ==
    \A r \in Requests :
        (self.mutual_authentication = OPTIONAL /\ Handled(r))
        => /\ Raised(r, "MutualAuthenticationError")
                => /\ Challenge(response[r])
                   /\ result[r].server = Some([ret |-> FALSE, exc |-> None])
           /\ (response[r].status_code # 401 /\ ~Challenge(response[r]))
                => /\ Returned(r, response[r])
                   /\ response[r].cls = "Response"

C5_Witness ==
    \E r \in Requests :
        /\ self.mutual_authentication = OPTIONAL
        /\ self.sanitize_mutual_error_response
        /\ Handled(r)
        /\ response[r].status_code = 500
        /\ ~Challenge(response[r])
        /\ result[r].kind = "return"

\* C6: once authenticate_user has caught a KerberosExchangeError for a 401
\* response with a challenge, negotiation is over: no Authorization header
\* is set and the request is not sent again afterwards, and handle_response
\* returns that 401 response.
C6_AbortOnExchangeError ==
    \A r \in Requests :
        \A i \in DOMAIN log[r] :
            log[r][i].ev = "KerberosExchangeError"
            => /\ \A j \in DOMAIN log[r] :
                     j > i => log[r][j].ev \notin {"Authorization", "resend"}
               /\ Handled(r) =>
                     /\ result[r].kind = "return"
                     /\ The(result[r].value).id = The(log[r][i].response)

\* C7: the only exception __call__ or handle_response lets reach the caller
\* is MutualAuthenticationError; a KerberosExchangeError never does.
C7_OnlyMutualAuthenticationError ==
    \A r \in DOMAIN result :
        result[r].kind = "raise"
        => The(result[r].exc).type = "MutualAuthenticationError"

\* C8: the response of the first send has an empty history; the response of
\* the k-th resend has a history of exactly one element, the 401 response
\* that was in hand when the request was sent again (the response of the
\* send before), whose own history is as it was; and a response returned
\* unsanitized is returned with the history it had.
C8_History ==
    \A r \in DOMAIN response :
        LET resp == response[r]
            k == resp.id[2]
        IN  /\ k = 0 => resp.history = <<>>
            /\ k > 0 =>
                 /\ Len(resp.history) = 1
                 /\ resp.history[1].id = <<r, k - 1>>
                 /\ Some(resp.history[1].id) = Sends(r)[k + 1].response
                 /\ resp.history[1].status_code = 401
                 /\ Len(resp.history[1].history) = IF k > 1 THEN 1 ELSE 0
            /\ (Handled(r) /\ result[r].kind = "return"
                /\ The(result[r].value).cls = "Response")
               => The(result[r].value).history = resp.history

C8_Witness ==
    \E r \in DOMAIN response :
        /\ Handled(r)
        /\ result[r].kind = "return"
        /\ response[r].status_code = 200
        /\ response[r].id = <<r, 2>>
        /\ Len(The(result[r].value).history) = 1

C10_Rewind ==
    \A r \in Requests :
        \A i \in DOMAIN log[r] :
            LET recorded == log[r][1].pos
            IN  /\ log[r][i].ev = "resend" =>
                     The(log[r][i].request).body = recorded
                /\ log[r][i].ev = "seek" =>
                     (recorded # None /\ log[r][i].pos = recorded)

C10_Witness ==
    \E r \in Requests :
        /\ Len(Sends(r)) = 3
        /\ log[r][1].pos # None
        /\ The(log[r][1].pos) > 0
        /\ The(Sends(r)[2].request).body = log[r][1].pos
        /\ The(Sends(r)[3].request).body = log[r][1].pos
        /\ request[r].body = Some(BodyEnd)

\* C11: an invocation of handle_response with a 401 response that carries no
\* Negotiate challenge leaves the handler as it was (no context is created
\* or stepped), sets no header on the request, sends nothing and passes the
\* same response on; handle_response ends by returning that very response,
\* without raising.
C11_NoChallengeResult ==
    \A r \in Requests :
        (/\ Handled(r)
         /\ response[r].status_code = 401
         /\ ~Challenge(response[r]))
        => Returned(r, response[r])

C11_NoChallengeStep ==
    \A r \in Requests :
        (/\ pc[r] = "hook"
         /\ response[r].status_code = 401
         /\ ~Challenge(response[r]))
        => /\ self' = self
           /\ response'[r] = response[r]
           /\ request'[r].headers = request[r].headers
           /\ request'[r].url = request[r].url
           /\ Len(Sends(r)') = Len(Sends(r))
           /\ pc'[r] \in {"hook", "returned"}

C11_NoChallenge == []C11_NoChallengeResult /\ [][C11_NoChallengeStep]_vars

C11_Witness ==
    \E r \in Requests :
        /\ Handled(r)
        /\ response[r].status_code = 401
        /\ ~Challenge(response[r])
        /\ response[r].id = <<r, 1>>
        /\ num_401s[r] = 2
        /\ "Authorization" \in DOMAIN request[r].headers
        /\ Returned(r, response[r])

\* ------------------------------------------------------------------------
\* SanitizedResponse as a function of the original response
\*
\* SanitizeSpec applies SanitizedResponse to two original responses: the
\* same response object as it is in two runs, response["r1"] and
\* response["r2"], which may differ in status, body, cookies and headers.
\* result[r] is the SanitizedResponse of response[r].
\* ------------------------------------------------------------------------

\* header maps of an original: date and x-secret absent or with one of two
\* values, server absent or present
OriginalHeaders ==
    {[h \in {k \in {"date", "server", "x-secret"} : v[k] # None} |-> The(v[h])] :
        v \in [{"date", "server", "x-secret"} -> {None, Some(<<"a">>), Some(<<"b">>)}]}

OriginalBodies == {"body", "other body"}

OriginalCookies == {{}, {"sid"}}

Originals ==
    {[Response("r1", 0, "a.test", st, None) EXCEPT
          !.headers = hd, !._content = bd, !.cookies = ck] :
        st \in {401, 500}, hd \in {x \in OriginalHeaders :
                                      "server" \in DOMAIN x => x["server"] = <<"a">>},
        bd \in OriginalBodies, ck \in OriginalCookies}

SanitizeInit ==
    /\ self = HTTPKerberosAuth(REQUIRED, FALSE, FALSE, None, None, TRUE)
    /\ pc = [r \in Requests |-> "idle"]
    /\ request = <<>>
    /\ response \in [Requests -> Originals]
    /\ num_401s = <<>>
    /\ result = <<>>
    /\ log = [r \in Requests |-> <<>>]

\* SanitizedResponse(response[r])
Sanitize(r) ==
    /\ pc[r] = "idle"
    /\ result' = DictSet(result, r, SanitizedResponse(response[r]))
    /\ pc' = [pc EXCEPT ![r] = "returned"]
    /\ UNCHANGED <<self, request, response, num_401s, log>>

SanitizeNext == \E r \in Requests : Sanitize(r)

SanitizeSpec == SanitizeInit /\ [][SanitizeNext]_vars

\* the two originals agree on everything SanitizedResponse may depend on
SameVisible(a, b) ==
    /\ a.status_code = b.status_code
    /\ a.encoding = b.encoding
    /\ a.reason = b.reason
    /\ a.url = b.url
    /\ a.request = b.request
    /\ a.connection = b.connection
    /\ a.raw = b.raw
    /\ HeaderGet(a.headers, "date") = HeaderGet(b.headers, "date")
    /\ HeaderGet(a.headers, "server") = HeaderGet(b.headers, "server")

\* C12: every SanitizedResponse has an empty body, no cookies,
\* content-length 0 and no header besides content-length, date and server,
\* the latter two as in the original; and the SanitizedResponses of two
\* originals that agree on status code, encoding, reason, url, request,
\* connection, raw and the date and server headers are equal, however the
\* originals differ in body, cookies and other headers.
C12_SanitizedDependsOnVisible ==
    /\ \A r \in DOMAIN result :
          /\ result[r].cls = "SanitizedResponse"
          /\ result[r]._content = ""
          /\ result[r]._content_consumed
          /\ result[r].cookies = {}
          /\ result[r].headers["content-length"] = <<"0">>
          /\ DOMAIN result[r].headers \subseteq {"content-length", "date", "server"}
          /\ \A h \in {"date", "server"} :
                HeaderGet(result[r].headers, h) = HeaderGet(response[r].headers, h)
    /\ (DOMAIN result = Requests /\ SameVisible(response["r1"], response["r2"]))
          => result["r1"] = result["r2"]

C12_Witness ==
    /\ DOMAIN result = Requests
    /\ SameVisible(response["r1"], response["r2"])
    /\ response["r1"]._content # response["r2"]._content
    /\ response["r1"].cookies # response["r2"].cookies
    /\ HeaderGet(response["r1"].headers, "x-secret") = Some(<<"a">>)
    /\ HeaderGet(response["r2"].headers, "x-secret") = Some(<<"b">>)
    /\ "date" \in DOMAIN response["r1"].headers
    /\ result["r1"] = result["r2"]

\* ------------------------------------------------------------------------
\* _negotiate_value as a function of the WWW-Authenticate header
\*
\* ParserSpec applies _negotiate_value to a response of every header value
\* of at most MaxLen symbols, and of none; result["r1"] is what it returns
\* for response["r1"].
\* ------------------------------------------------------------------------
Symbols == {"Negotiate", "negotiate", "NTLM", "t", " ", ","}

\* "NTLM abc, Negotiate dGVzdA=="
ExampleHeader == <<"NTLM", " ", "abc", ",", " ", "Negotiate", " ", "dGVzdA==">>

ParserHeaders ==
    {None, Some(ExampleHeader)} \cup
    {Some(s) : s \in UNION {[1..n -> Symbols] : n \in 0..MaxLen}}

ParserInit ==
    /\ self = HTTPKerberosAuth(REQUIRED, FALSE, FALSE, None, None, TRUE)
    /\ pc = [r \in Requests |-> "idle"]
    /\ request = <<>>
    /\ \E www \in ParserHeaders :
          response = DictSet(<<>>, "r1", Response("r1", 0, "a.test", 401, www))
    /\ num_401s = <<>>
    /\ result = <<>>
    /\ log = [r \in Requests |-> <<>>]

\* _negotiate_value(response["r1"])
Parse ==
    /\ pc["r1"] = "idle"
    /\ result' = DictSet(result, "r1", _negotiate_value(response["r1"]))
    /\ pc' = [pc EXCEPT !["r1"] = "returned"]
    /\ UNCHANGED <<self, request, response, num_401s, log>>

ParserNext == Parse

ParserSpec == ParserInit /\ [][ParserNext]_vars

\* The challenges of a header value are its comma-separated elements: the
\* positions at which one begins
ChallengeStarts(s) == {i \in 1..(Len(s) + 1) : i = 1 \/ s[i - 1] = ","}

\* the challenge beginning at i names the Negotiate scheme: its first symbol
\* after blanks is the keyword
NegotiateChallenge(s, i) == i \in ChallengeStarts(s) /\ KeywordAt(s, i)

\* what follows the scheme name of the challenge beginning at i, up to the
\* next comma
ChallengeToken(s, i) ==
    LET b == SkipSpace(s, SkipSpace(s, i) + 1)
    IN  SubSeq(s, b, SkipToComma(s, b) - 1)

\* C13: _negotiate_value returns None for a response without a
\* WWW-Authenticate header and for one whose header has no challenge of the
\* Negotiate scheme; else it returns the token of a Negotiate challenge of
\* the header, never anything else.
C13_TokenOfNegotiateScheme ==
    ("r1" \in DOMAIN result) =>
        LET authreq == HeaderGet(response["r1"].headers, "www-authenticate")
            s == The(authreq)
        IN  IF authreq = None \/ \A i \in ChallengeStarts(s) : ~NegotiateChallenge(s, i)
            THEN result["r1"] = None
            ELSE /\ result["r1"] # None
                 /\ \E i \in ChallengeStarts(s) :
                       /\ NegotiateChallenge(s, i)
                       /\ The(result["r1"]) = ChallengeToken(s, i)

\* C14: whenever handle_response is about to call authenticate_server for a
\* response (one that is not a 401 and carries a challenge, under REQUIRED
\* or OPTIONAL), a context is stored for the host of the response; and every
\* call of authenticate_server returned True or False and raised nothing.
C14_ServerVerificationBoolean ==
    \A r \in Requests :
        /\ (/\ pc[r] = "hook"
            /\ response[r].status_code # 401
            /\ MutualAuthWanted(self)
            /\ Challenge(response[r]))
           => Hostname(response[r].url) \in DOMAIN self.context
        /\ (Handled(r) /\ result[r].server # None)
           => /\ The(result[r].server).exc = None
              /\ The(result[r].server).ret \in BOOLEAN

\* C15: in every step the hosts with an entry in self.context stay (the set
\* never shrinks); an entry that holds a new context belongs to the host of
\* the request whose generate_request_header call created it, the context
\* is the newly created one, stepped once, and the entries of all other
\* hosts are as they were; an entry that keeps its context is unchanged or
\* stepped once more.  No context is stored under two hosts.
C15_ContextsStep ==
    LET before == self.context
        after == self'.context
    IN  /\ DOMAIN before \subseteq DOMAIN after
        /\ \A h \in DOMAIN after :
              IF h \in DOMAIN before /\ after[h].id = before[h].id
              THEN \/ after[h] = before[h]
                   \/ /\ Len(after[h].steps) = Len(before[h].steps) + 1
                      /\ SubSeq(after[h].steps, 1, Len(before[h].steps)) =
                            before[h].steps
              ELSE /\ \E r \in DOMAIN request' :
                         /\ h = Hostname(request'[r].url)
                         /\ after[h].id[1] = r
                   /\ Len(after[h].steps) = 1
                   /\ \A h2 \in DOMAIN before \ {h} : after[h2] = before[h2]
                   /\ DOMAIN after = DOMAIN before \cup {h}

C15_ContextsOnePerHost ==
    \A h1, h2 \in DOMAIN self.context :
        self.context[h1].id = self.context[h2].id => h1 = h2

C15_Contexts == []C15_ContextsOnePerHost /\ [][C15_ContextsStep]_vars

C15_Witness ==
    /\ self.force_preemptive
    /\ DOMAIN self.context = Hosts
    /\ self.context["a.test"].id = <<"r1", 1>>
    /\ self.context["b.test"].id = <<"r2", 2>>
    /\ Len(self.context["a.test"].steps) = 2

\* C16: the context stored under a host names the principal
\* service@hostname_override when hostname_override is set and service@host
\* when it is not; and when authenticate_server has returned for a response,
\* the context stored under the host of that response is the one it
\* stepped, with the token of the response.
C16_OverrideKeyedByHost ==
    /\ \A h \in DOMAIN self.context :
          self.context[h].name =
             <<self.service, "@",
               IF self.hostname_override # None
               THEN The(self.hostname_override) ELSE h>>
    /\ \A r \in Requests :
          (/\ Handled(r)
           /\ result[r].server # None
           /\ The(result[r].server).exc = None)
          => LET h == Hostname(response[r].url)
             IN  /\ h \in DOMAIN self.context
                 /\ Len(self.context[h].steps) >= 2
                 /\ self.context[h].steps[Len(self.context[h].steps)] =
                       [token |-> _negotiate_value(response[r]),
                        ok |-> The(result[r].server).ret]

C16_Witness ==
    \E r \in Requests :
        /\ self.hostname_override = Some("alias.test")
        /\ Handled(r)
        /\ result[r].server = Some([ret |-> TRUE, exc |-> None])
        /\ Hostname(response[r].url) = "a.test"
        /\ DOMAIN self.context = {"a.test"}
        /\ self.context["a.test"].name = <<"HTTP", "@", "alias.test">>
        /\ self.context["a.test"].id[1] = r

\* C17: every resend is the last of four steps taken in this order for the
\* same 401 response: the Authorization header is set, the content of the
\* response is read, its connection is released, the request is sent; the
\* request sent carries the header, and the 401 response a resend answers
\* to (the history of the new response) is consumed and its connection
\* released.  None of the first three steps happens outside such a group.
C17_ResendOrder ==
    \A r \in Requests :
        /\ \A i \in DOMAIN log[r] :
              /\ log[r][i].ev = "resend" =>
                    /\ i > 3
                    /\ log[r][i - 3].ev = "Authorization"
                    /\ log[r][i - 2].ev = "content"
                    /\ log[r][i - 1].ev = "release_conn"
                    /\ \A j \in (i - 3)..i :
                          log[r][j].response = log[r][i].response
                    /\ "Authorization" \in DOMAIN The(log[r][i].request).headers
              /\ log[r][i].ev = "Authorization" =>
                    i + 3 \in DOMAIN log[r] /\ log[r][i + 3].ev = "resend"
              /\ log[r][i].ev = "content" =>
                    i + 2 \in DOMAIN log[r] /\ log[r][i + 2].ev = "resend"
              /\ log[r][i].ev = "release_conn" =>
                    i + 1 \in DOMAIN log[r] /\ log[r][i + 1].ev = "resend"
        /\ r \in DOMAIN response =>
              \A k \in DOMAIN response[r].history :
                  /\ response[r].history[k]._content_consumed
                  /\ response[r].history[k].raw.released
                  /\ response[r].history[k].connection = response[r].connection

C17_Witness ==
    \E r \in Requests :
        /\ Len(Sends(r)) = 3
        /\ log[r][Len(log[r])].ev = "resend"
        /\ response[r].id = <<r, 2>>
        /\ response[r].history[1].raw.released
        /\ ~response[r].raw.released

\* C18: with the handler serving one request after the other, while a
\* request is prepared or being handled self.pos is the position its own
\* body had when __call__ returned for it, None for a body without tell,
\* whatever position an earlier request left; every seek of
\* handle_response rewinds to that position, and handle_response never
\* fails for seeking a body that cannot seek.
C18_PosOfLastPrepared ==
    \A r \in Requests :
        /\ pc[r] \in {"prepared", "hook"} =>
              self.pos = The(log[r][1].request).body
        /\ pc[r] \in {"prepared", "hook", "returned", "raised"} =>
              \A i \in DOMAIN log[r] :
                  log[r][i].ev = "seek" =>
                     /\ log[r][i].pos # None
                     /\ log[r][i].pos = The(log[r][1].request).body
        /\ r \in DOMAIN result => ~Raised(r, "AttributeError")

C18_Witness ==
    /\ pc["r1"] = "closed"
    /\ log["r1"] # <<>>
    /\ log["r1"][1].pos = Some(1)
    /\ pc["r2"] = "returned"
    /\ The(log["r2"][1].request).body = None
    /\ self.pos = None
    /\ Len(Sends("r2")) = 2
    /\ \A i \in DOMAIN log["r2"] : log["r2"][i].ev # "seek"

\* ------------------------------------------------------------------------
\* One handler shared by two requests in flight
\*
\* ConcurrentSpec drops the turn-taking of Spec: the two requests are
\* prepared, sent and handled in any interleaving of their steps, as when
\* two threads use one session.  Each __call__ and each invocation of
\* handle_response is one step.
\* ------------------------------------------------------------------------
ConcurrentConfigurations ==
    {HTTPKerberosAuth(REQUIRED, FALSE, FALSE, None, None, FALSE)}

ConcurrentInit ==
    /\ self \in ConcurrentConfigurations
    /\ pc = [r \in Requests |-> "idle"]
    /\ request = <<>>
    /\ response = <<>>
    /\ num_401s = <<>>
    /\ result = <<>>
    /\ log = [r \in Requests |-> <<>>]

\* the request the handler is attached to first is r1
First(r) == r = "r1" \/ pc["r1"] # "idle"

ConcurrentNext ==
    \E r \in Requests :
        \/ First(r) /\ Call(r)
        \/ Send(r)
        \/ Hook(r)

ConcurrentSpec == ConcurrentInit /\ [][ConcurrentNext]_vars

\* C19: with two requests in flight, a call of authenticate_server for a
\* response steps the context stored under the host of the response at that
\* moment, with the token of the response, whichever request created that
\* context: the handler has no check that it belongs to the exchange of the
\* response.  (C19_Witness: r1 has negotiated a context of its own, r2 has
\* replaced it under the same host while r1 awaited its response, and the
\* authenticate_server call of r1 has stepped the context of r2.)
C19_StepsStoredContext ==
    \A r \in Requests :
        (/\ pc[r] = "hook"
         /\ pc'[r] \in {"returned", "raised"}
         /\ result'[r].server # None
         /\ The(result'[r].server).exc = None)
        => LET h == Hostname(response[r].url)
           IN  /\ h \in DOMAIN self.context
               /\ self'.context[h].id = self.context[h].id
               /\ self'.context[h].steps =
                     Append(self.context[h].steps,
                            [token |-> _negotiate_value(response[r]),
                             ok |-> The(result'[r].server).ret])
               /\ \A h2 \in DOMAIN self.context \ {h} :
                     self'.context[h2] = self.context[h2]

C19_Overwritten == [][C19_StepsStoredContext]_vars

C19_Witness ==
    /\ Handled("r1")
    /\ result["r1"].server = Some([ret |-> TRUE, exc |-> None])
    /\ result["r1"].kind = "return"
    /\ \E i \in DOMAIN log["r1"] : log["r1"][i].ev = "resend"
    /\ Hostname(response["r1"].url) = "a.test"
    /\ pc["r2"] = "hook"
    /\ Hostname(request["r2"].url) = "a.test"
    /\ response["r2"].status_code = 401
    /\ self.context["a.test"].id = <<"r2", 1>>
    /\ Len(self.context["a.test"].steps) = 2

\* C20: with two requests in flight to different hosts, each request is
\* handled as if it were alone: every seek and every resend of a request
\* has its body at the position its own __call__ recorded, no seek happens
\* when that position is None, handle_response never fails with an
\* AttributeError, and the context stepped for a response was created by
\* the request of that response.
C20_Independent ==
    (/\ DOMAIN request = Requests
     /\ Hostname(request["r1"].url) # Hostname(request["r2"].url))
    => \A r \in Requests :
          /\ \A i \in DOMAIN log[r] :
                LET own == The(log[r][1].request).body
                IN  /\ log[r][i].ev = "resend" =>
                          The(log[r][i].request).body = own
                    /\ log[r][i].ev = "seek" =>
                          (own # None /\ log[r][i].pos = own)
          /\ r \in DOMAIN result => ~Raised(r, "AttributeError")
          /\ Hostname(request[r].url) \in DOMAIN self.context =>
                self.context[Hostname(request[r].url)].id[1] = r

====
